---- MODULE Spec2Model ----
(***************************************************************************)
(* Model of data/CommonMT/Lexical_Ambiguity/alignment_correlation.py:      *)
(* the batch metric extractor.  main() lists a directory, submits one      *)
(* process_one_file task per regular file to a ProcessPoolExecutor,        *)
(* collects the futures with as_completed, filters the successes and       *)
(* builds the index-aligned series that are plotted.                       *)
(*                                                                         *)
(* Three specifications:                                                   *)
(*   Spec       the batch run (main + worker tasks + the environment's     *)
(*              faults: a CSV write error, a failed os.remove, a worker    *)
(*              process that dies);                                        *)
(*   LiveSpec   the same run with weak fairness on every step and no       *)
(*              worker death (the routine returns or raises);              *)
(*   SpecTurns  build_turns_from_debate applied to bounded debates.        *)
(***************************************************************************)
EXTENDS Integers, Sequences, FiniteSets

VARIABLES
    dir,        \* entry of os.listdir's result (by position) -> what it holds
    workers,    \* os.cpu_count() or 1: the pool's max_workers
    mainpc,     \* position of main()
    files,      \* main's `files` list (paths)
    nsub,       \* how many of `files` have been submitted
    futState,   \* entry -> state of the future submitted for it
    futResult,  \* entry -> the dict the task returned (once finished)
    collected,  \* futures as_completed has yielded to main
    results,    \* main's `results` list
    printed,    \* the status lines main printed
    series,     \* the eight series main builds for plotting
    pc,         \* entry -> position of process_one_file in its worker
    exc,        \* entry -> exception raised in the task ("none" if none)
    local,      \* entry -> the task's locals (comet_score, data, tmp_path, metrics)
    tmpfs,      \* temp file name -> [exists, content]
    crashed,    \* entries whose worker process died
    debate,     \* SpecTurns: the debate given to build_turns_from_debate
    turns,      \* SpecTurns: what it returned
    bpc         \* SpecTurns: "input" before the call, "built" after

vars == <<dir, workers, mainpc, files, nsub, futState, futResult, collected,
          results, printed, series, pc, exc, local, tmpfs, crashed,
          debate, turns, bpc>>

mainVars == <<dir, workers, mainpc, files, nsub, futState, futResult, collected,
              results, printed, series, pc, exc, local, tmpfs, crashed>>

turnVars == <<debate, turns, bpc>>

----------------------------------------------------------------------------
\* Bounds of the model.

\* directory entries
NumEntries == 2
\* largest pool size tried
MaxWorkers == 2
\* names the temp directory can hand out
NumTmpNames == 2
\* SpecTurns: longest Negative side list
MaxNeg == 4
\* SpecTurns: longest Affirmative side list
MaxAff == 7

Entries == 1..NumEntries
TmpNames == 1..NumTmpNames

----------------------------------------------------------------------------
\* Python helpers.

debate_path == "MAD_Debate_Process"

\* s[k:] on a 0-based Python list (empty when k >= len(s))
PySliceFrom_OffByOne(s, k) == IF Len(s) < k THEN <<>> ELSE SubSeq(s, k, Len(s))
PySliceFrom(s, k) == IF Len(s) <= k THEN <<>> ELSE SubSeq(s, k + 1, Len(s))

\* os.path.join(dirname, name)
PathJoin(d, name) == <<d, name>>

\* os.path.basename(path)
Basename(path) == path[Len(path)]

RECURSIVE Filter(_, _)
\* [r for r in s if r["ok"] = flag]
Filter(s, flag) ==
    IF s = <<>> THEN <<>>
    ELSE IF s[1].ok = flag THEN <<s[1]>> \o Filter(Tail(s), flag)
         ELSE Filter(Tail(s), flag)

----------------------------------------------------------------------------
\* build_turns_from_debate

Aff == "Affirmative side"
Neg == "Negative side"

\* result of a call: err = "none" and the value, or the exception class raised
Ok(v) == [err |-> "none", val |-> v]
Raise(e) == [err |-> e, val |-> <<>>]

\* the alternation loop of lines 32-34 over rest = debate['players']['Negative side'][2:]
AlternateRows(rest) ==
    [i \in 1..Len(rest) |->
        [Speaker |-> IF (i - 1) % 2 = 0 THEN Neg ELSE Aff,
         Utterance |-> rest[i].content]]

build_turns_from_debate(d) ==
    IF Len(d.players[Aff]) < 6
    THEN Raise("IndexError")
    ELSE Ok(<<[Speaker |-> Aff, Utterance |-> d.players[Aff][6].content]>>
            \o AlternateRows(PySliceFrom(d.players[Neg], 2)))

----------------------------------------------------------------------------
\* The input files.  A directory entry is a sub-directory ("dir") or a regular
\* file whose content decides how far process_one_file gets:
\*   good        a well-formed debate the alignment routine handles
\*   badjson     not JSON
\*   nofield     JSON without the 'comet score' key
\*   short       the Affirmative side has fewer than 6 turns
\*   dialignerr  a debate on which the alignment routine raises
\*   nometric    a debate for which the routine reports no 'Negative side' metrics

Fates == {"dir", "good", "badjson", "nofield", "short", "dialignerr", "nometric"}

Turns(f, side, n) == [i \in 1..n |-> [content |-> <<f, side, i>>]]

\* the JSON document stored in regular file f
Doc(f, fate) ==
    [hasComet |-> fate # "nofield",
     comet    |-> <<f, "comet">>,
     players  |-> [s \in {Aff, Neg} |->
                     IF s = Aff THEN Turns(f, Aff, IF fate = "short" THEN 5 ELSE 6)
                     ELSE Turns(f, Neg, 4)]]

\* open(path) + json.load(f), lines 43-44
json_load(path, fate) ==
    IF fate = "dir" THEN Raise("IsADirectoryError")
    ELSE IF fate = "badjson" THEN Raise("JSONDecodeError")
    ELSE Ok(Doc(Basename(path), fate))

\* debate['comet score'], line 46
comet_of(doc) == IF doc.hasComet THEN Ok(doc.comet) ELSE Raise("KeyError")

----------------------------------------------------------------------------
\* The temporary CSV and the alignment routine.

\* tmp_path before line 51 assigns it
NoPath == 0
Absent == [exists |-> FALSE, content |-> <<>>]

\* names NamedTemporaryFile may return: mkstemp opens with O_CREAT | O_EXCL,
\* so a name that exists is never handed out
FreshNames_NoExcl(fs) == TmpNames
FreshNames(fs) == {n \in TmpNames : ~fs[n].exists}

\* pd.DataFrame(data).to_csv(tmp_path, index=False): a header line, then one
\* line per row
to_csv(data) ==
    <<<<"Speaker", "Utterance">>>> \o [i \in 1..Len(data) |-> <<data[i].Speaker, data[i].Utterance>>]

\* the file whose turns a CSV holds (the first component of its first utterance)
SourceOf(content) == content[2][2][1]

\* dialign(tmp_path, "Speaker", "Utterance") on the file `file`; `routine` is
\* how the opaque routine behaves on the debate the file holds
dialign(file, routine) ==
    IF ~file.exists THEN Raise("FileNotFoundError")
    ELSE IF Len(file.content) < 2 THEN Raise("EmptyDataError")
    ELSE IF routine = "dialignerr" THEN Raise("DialignError")
    ELSE LET src == SourceOf(file.content)
             who == IF routine = "nometric" THEN {Aff} ELSE {Aff, Neg}
         IN  Ok([speaker_independent |-> [ER |-> <<src, "ER">>, EE |-> <<src, "EE">>],
                 speaker_dependent   |-> [s \in who |->
                                            [ER        |-> <<src, s, "ER">>,
                                             EE        |-> <<src, s, "EE">>,
                                             Initiated |-> <<src, s, "Initiated">>]]])

\* the exception pending when the finally block of lines 57-62 is left:
\* the inner try/except swallows whatever os.remove raised
AfterRemove_Propagates(pending, remove_error) ==
    IF remove_error # "none" THEN remove_error ELSE pending
AfterRemove(pending, remove_error) == pending

\* the dict of lines 65-76
SuccessDict(path, l) ==
    IF Neg \notin DOMAIN l.metrics.speaker_dependent THEN Raise("KeyError")
    ELSE Ok([ok       |-> TRUE,
             file     |-> Basename(path),
             comet    |-> l.comet_score,
             er       |-> l.metrics.speaker_independent.ER,
             ee       |-> l.metrics.speaker_independent.EE,
             aff_rep  |-> l.metrics.speaker_dependent[Aff].ER,
             neg_rep  |-> l.metrics.speaker_dependent[Neg].ER,
             aff_est  |-> l.metrics.speaker_dependent[Aff].EE,
             neg_est  |-> l.metrics.speaker_dependent[Neg].EE,
             aff_init |-> l.metrics.speaker_dependent[Aff].Initiated])

\* the dict of lines 80-85
FailureDict(path, e) ==
    [ok    |-> FALSE,
     file  |-> Basename(path),
     error |-> <<e, ": ", e>>,
     trace |-> <<"Traceback", e>>]

\* exception classes the model raises inside process_one_file; all derive
\* from Exception
ExceptionClasses ==
    {"IsADirectoryError", "JSONDecodeError", "KeyError", "IndexError", "FileExistsError", "OSError",
     "FileNotFoundError", "EmptyDataError", "DialignError", "PermissionError"}

\* `except Exception as e`, line 78
Caught_OnlyParse(e) == e \in {"JSONDecodeError", "KeyError", "IndexError"}
Caught(e) == e \in ExceptionClasses

----------------------------------------------------------------------------
\* State of a future and of the task behind it.

NoLocal == [comet_score |-> <<>>, data |-> <<>>, tmp_path |-> NoPath, metrics |-> <<>>]
NoResult == [ok |-> FALSE, file |-> NoPath]

PathOf(t) == PathJoin(debate_path, t)

Submitted == {Basename(files[i]) : i \in 1..nsub}
Running == {t \in Entries : futState[t] = "running"}

\* the work queue is FIFO: the next call a free worker takes is the first
\* submitted one that has not started
IsNextQueued(t) ==
    \E i \in 1..nsub :
        /\ Basename(files[i]) = t
        /\ futState[t] = "pending"
        /\ \A j \in 1..(i - 1) : futState[Basename(files[j])] # "pending"

\* lines 78-85: the task raised e.  The handler returns the error dict, which
\* finishes the future; an exception the handler does not catch is stored in
\* the future instead.  The call is over: its locals are gone.
Handle(t, e) ==
    /\ exc' = [exc EXCEPT ![t] = e]
    /\ pc' = [pc EXCEPT ![t] = "done"]
    /\ local' = [local EXCEPT ![t] = NoLocal]
    /\ IF Caught(e)
       THEN /\ futResult' = [futResult EXCEPT ![t] = FailureDict(PathOf(t), e)]
            /\ futState' = [futState EXCEPT ![t] = "finished"]
       ELSE /\ futState' = [futState EXCEPT ![t] = "exception"]
            /\ UNCHANGED futResult

----------------------------------------------------------------------------
\* process_one_file, run by a worker process of the pool.

\* a free worker takes the next queued call: the future is running
Start(t) ==
    /\ IsNextQueued(t)
    /\ crashed = {}
    /\ Cardinality(Running) < workers
    /\ futState' = [futState EXCEPT ![t] = "running"]
    /\ pc' = [pc EXCEPT ![t] = "load"]
    /\ UNCHANGED <<dir, workers, mainpc, files, nsub, futResult, collected, results,
                   printed, series, exc, local, tmpfs, crashed, turnVars>>

\* lines 43-47: open, json.load, debate['comet score'], build_turns_from_debate
Load(t) ==
    /\ pc[t] = "load"
    /\ LET d == json_load(PathOf(t), dir[t])
           c == comet_of(d.val)
           b == build_turns_from_debate(d.val)
       IN  IF d.err # "none" THEN Handle(t, d.err)
           ELSE IF c.err # "none" THEN Handle(t, c.err)
           ELSE IF b.err # "none" THEN Handle(t, b.err)
                ELSE /\ local' = [local EXCEPT ![t].comet_score = c.val, ![t].data = b.val]
                     /\ pc' = [pc EXCEPT ![t] = "tmpfile"]
                     /\ UNCHANGED <<exc, futState, futResult>>
    /\ UNCHANGED <<dir, workers, mainpc, files, nsub, collected, results, printed,
                   series, tmpfs, crashed, turnVars>>

\* lines 50-51: NamedTemporaryFile(mode="w", suffix=".csv", delete=False)
AllocTemp(t) ==
    /\ pc[t] = "tmpfile"
    /\ IF FreshNames(tmpfs) = {}
       THEN Handle(t, "FileExistsError") /\ UNCHANGED tmpfs
       ELSE \E n \in FreshNames(tmpfs) :
               /\ tmpfs' = [tmpfs EXCEPT ![n] = [exists |-> TRUE, content |-> <<>>]]
               /\ local' = [local EXCEPT ![t].tmp_path = n]
               /\ pc' = [pc EXCEPT ![t] = "to_csv"]
               /\ UNCHANGED <<exc, futState, futResult>>
    /\ UNCHANGED <<dir, workers, mainpc, files, nsub, collected, results, printed,
                   series, crashed, turnVars>>

\* line 52 and the end of the with block: the CSV is written, or the write
\* fails (disk full, quota) and the exception leaves the with block; the file
\* was opened with delete=False, so it stays
WriteCsv(t) ==
    /\ pc[t] = "to_csv"
    /\ \/ /\ tmpfs' = [tmpfs EXCEPT ![local[t].tmp_path] =
                          [exists |-> TRUE, content |-> to_csv(local[t].data)]]
          /\ pc' = [pc EXCEPT ![t] = "dialign"]
          /\ UNCHANGED <<exc, local, futState, futResult>>
       \/ /\ Handle(t, "OSError")
          /\ UNCHANGED tmpfs
    /\ UNCHANGED <<dir, workers, mainpc, files, nsub, collected, results, printed,
                   series, crashed, turnVars>>

\* lines 55-56: the alignment routine reads the CSV
Dialign(t) ==
    /\ pc[t] = "dialign"
    /\ LET f == tmpfs[local[t].tmp_path]
           r == dialign(f, IF f.exists /\ Len(f.content) >= 2
                           THEN dir[SourceOf(f.content)] ELSE "good")
       IN  /\ exc' = [exc EXCEPT ![t] = r.err]
           /\ local' = [local EXCEPT ![t].metrics = r.val]
    /\ pc' = [pc EXCEPT ![t] = "finally"]
    /\ UNCHANGED <<dir, workers, mainpc, files, nsub, futState, futResult, collected,
                   results, printed, series, tmpfs, crashed, turnVars>>

\* lines 57-62: os.remove(tmp_path) removes the file or raises (the file is
\* gone, or the removal is refused); what it raises is swallowed.  An
\* exception pending from the routine then reaches the handler.
Cleanup(t) ==
    /\ pc[t] = "finally"
    /\ \E removed \in BOOLEAN :
          /\ removed => tmpfs[local[t].tmp_path].exists
          /\ LET rerr == IF removed THEN "none" ELSE "PermissionError"
                 after == AfterRemove(exc[t], rerr)
             IN  /\ tmpfs' = IF removed
                             THEN [tmpfs EXCEPT ![local[t].tmp_path] = Absent]
                             ELSE tmpfs
                 /\ IF after # "none"
                    THEN Handle(t, after)
                    ELSE /\ pc' = [pc EXCEPT ![t] = "return"]
                         /\ UNCHANGED <<exc, local, futState, futResult>>
    /\ UNCHANGED <<dir, workers, mainpc, files, nsub, collected, results, printed,
                   series, crashed, turnVars>>

\* lines 65-76: the success dict is built and returned
ReturnOk(t) ==
    /\ pc[t] = "return"
    /\ LET r == SuccessDict(PathOf(t), local[t])
       IN  IF r.err # "none"
           THEN Handle(t, r.err)
           ELSE /\ futResult' = [futResult EXCEPT ![t] = r.val]
                /\ futState' = [futState EXCEPT ![t] = "finished"]
                /\ pc' = [pc EXCEPT ![t] = "done"]
                /\ local' = [local EXCEPT ![t] = NoLocal]
                /\ UNCHANGED exc
    /\ UNCHANGED <<dir, workers, mainpc, files, nsub, collected, results, printed,
                   series, tmpfs, crashed, turnVars>>

\* the worker process running t dies (killed, out of memory, a crash inside
\* the routine's native code): the executor marks the pool broken, terminates
\* the other workers and sets BrokenProcessPool on every future not yet done
Crash(t) ==
    /\ futState[t] = "running"
    /\ crashed = {}
    /\ crashed' = {t}
    /\ futState' = [u \in Entries |->
                      IF futState[u] \in {"pending", "running"} THEN "exception"
                      ELSE futState[u]]
    /\ pc' = [u \in Entries |-> IF futState[u] = "running" THEN "killed" ELSE pc[u]]
    /\ local' = [u \in Entries |-> IF futState[u] = "running" THEN NoLocal ELSE local[u]]
    /\ exc' = [u \in Entries |-> IF futState[u] = "running" THEN "none" ELSE exc[u]]
    /\ UNCHANGED <<dir, workers, mainpc, files, nsub, futResult, collected, results,
                   printed, series, tmpfs, turnVars>>

----------------------------------------------------------------------------
\* main()

SeriesKeys == {"comet", "er", "ee", "aff_rep", "neg_rep", "aff_est", "neg_est", "aff_init"}

\* [r[key] for r in ok], lines 110-117
Column_Reversed(ok, key) ==
    [i \in 1..Len(ok) |-> IF key = "comet" THEN ok[Len(ok) + 1 - i][key] ELSE ok[i][key]]
Column(ok, key) == [i \in 1..Len(ok) |-> ok[i][key]]

\* the status line of lines 100-103
StatusLine(res) ==
    IF res.ok THEN <<"Processed:", res.file>>
    ELSE <<"FAILED:", res.file, "-", res.error>>

\* as_completed(futures) is exhausted: every submitted future was yielded
Exhausted_AfterFirst(done, submitted) == done # {} \/ submitted = {}
Exhausted(done, submitted) == done = submitted

\* os.listdir(debate_path): the entries, named by their place in the listing.
\* dir gives every place any content, so every order in which a directory's
\* entries can be listed is the listing of some initial state.
listdir == [i \in 1..NumEntries |-> i]

\* os.path.isfile(os.path.join(debate_path, f))
isfile_Any(path) == TRUE
isfile(path) == dir[Basename(path)] # "dir"

\* lines 90-92: the paths of the regular files, in the listing's order
ListDir ==
    /\ mainpc = "list"
    /\ LET paths == [i \in 1..Len(listdir) |-> PathJoin(debate_path, listdir[i])]
           found == SelectSeq(paths, isfile)
       IN  /\ files' = found
           /\ mainpc' = IF Len(found) = 0 THEN "collect" ELSE "submit"
    /\ UNCHANGED <<dir, workers, nsub, futState, futResult, collected, results, printed,
                   series, pc, exc, local, tmpfs, crashed, turnVars>>

\* line 97: ex.submit(process_one_file, p) for the next p of files; a pool
\* already broken refuses the call with BrokenProcessPool
Submit ==
    /\ mainpc = "submit"
    /\ IF crashed # {}
       THEN /\ mainpc' = "aborted"
            /\ UNCHANGED <<nsub, futState>>
       ELSE /\ nsub' = nsub + 1
            /\ futState' = [futState EXCEPT ![Basename(files[nsub + 1])] = "pending"]
            /\ mainpc' = IF nsub + 1 = Len(files) THEN "collect" ELSE "submit"
    /\ UNCHANGED <<dir, workers, files, futResult, collected, results, printed, series,
                   pc, exc, local, tmpfs, crashed, turnVars>>

\* lines 98-104: as_completed yields a future that is done; fut.result()
\* returns the task's dict, or raises what the future holds, which nothing in
\* main catches
Collect(t) ==
    /\ mainpc = "collect"
    /\ t \in Submitted \ collected
    /\ futState[t] \in {"finished", "exception"}
    /\ IF futState[t] = "exception"
       THEN /\ mainpc' = "aborted"
            /\ UNCHANGED <<collected, results, printed>>
       ELSE /\ printed' = Append(printed, StatusLine(futResult[t]))
            /\ results' = Append(results, futResult[t])
            /\ collected' = collected \cup {t}
            /\ UNCHANGED mainpc
    /\ UNCHANGED <<dir, workers, files, nsub, futState, futResult, series, pc, exc,
                   local, tmpfs, crashed, turnVars>>

\* the for loop ends and the with block of line 96 is left
Shutdown ==
    /\ mainpc = "collect"
    /\ Exhausted(collected, Submitted)
    /\ mainpc' = "aggregate"
    /\ UNCHANGED <<dir, workers, files, nsub, futState, futResult, collected, results,
                   printed, series, pc, exc, local, tmpfs, crashed, turnVars>>

\* lines 107-117: the successes, then one series per key
Aggregate ==
    /\ mainpc = "aggregate"
    /\ LET ok == Filter(results, TRUE)
       IN  series' = [k \in SeriesKeys |-> Column(ok, k)]
    /\ mainpc' = "plot"
    /\ UNCHANGED <<dir, workers, files, nsub, futState, futResult, collected, results,
                   printed, pc, exc, local, tmpfs, crashed, turnVars>>

\* lines 120-133: the seven plot_correlation calls.  pearsonr (line 21) is
\* given the series as they are; on fewer than two points it returns nan or
\* raises ValueError, depending on the scipy installed, and nothing catches it.
Plot ==
    /\ mainpc = "plot"
    /\ \/ mainpc' = "done"
       \/ /\ Len(series["comet"]) < 2
          /\ mainpc' = "plot_error"
    /\ UNCHANGED <<dir, workers, files, nsub, futState, futResult, collected, results,
                   printed, series, pc, exc, local, tmpfs, crashed, turnVars>>

----------------------------------------------------------------------------
\* The batch run.

NoDebate == [players |-> [s \in {Aff, Neg} |-> <<>>]]

Init ==
    /\ dir \in [Entries -> Fates]
    /\ workers \in 1..MaxWorkers
    /\ mainpc = "list"
    /\ files = <<>>
    /\ nsub = 0
    /\ futState = [t \in Entries |-> "none"]
    /\ futResult = [t \in Entries |-> NoResult]
    /\ collected = {}
    /\ results = <<>>
    /\ printed = <<>>
    /\ series = [k \in SeriesKeys |-> <<>>]
    /\ pc = [t \in Entries |-> "idle"]
    /\ exc = [t \in Entries |-> "none"]
    /\ local = [t \in Entries |-> NoLocal]
    /\ tmpfs = [n \in TmpNames |-> Absent]
    /\ crashed = {}
    /\ debate = NoDebate
    /\ turns = Raise("none")
    /\ bpc = "off"

TaskStep(t) ==
    \/ Start(t)
    \/ Load(t)
    \/ AllocTemp(t)
    \/ WriteCsv(t)
    \/ Dialign(t)
    \/ Cleanup(t)
    \/ ReturnOk(t)

MainStep ==
    \/ ListDir
    \/ Submit
    \/ \E t \in Entries : Collect(t)
    \/ Shutdown
    \/ Aggregate
    \/ Plot

NextNoCrash ==
    \/ MainStep
    \/ \E t \in Entries : TaskStep(t)

Next ==
    \/ MainStep
    \/ \E t \in Entries : TaskStep(t)
    \/ \E t \in Entries : Crash(t)

Spec == Init /\ [][Next]_vars

\* Every step of main and of a worker is eventually taken when it stays
\* possible: the processes run; the worker does not die or hang.
LiveSpec ==
    /\ Init
    /\ [][NextNoCrash]_vars
    /\ WF_vars(MainStep)
    /\ \A t \in Entries : WF_vars(TaskStep(t))

----------------------------------------------------------------------------
\* build_turns_from_debate on bounded debates.

Texts == {<<1, Neg, 1>>, <<1, Neg, 2>>}

SeqsUpTo(S, lo, hi) == UNION {[1..n -> S] : n \in lo..hi}

Debates ==
    {[players |-> [s \in {Aff, Neg} |-> IF s = Aff THEN a ELSE n]] :
        a \in SeqsUpTo({[content |-> <<1, Aff, 6>>]}, 0, MaxAff),
        n \in SeqsUpTo({[content |-> x] : x \in Texts}, 0, MaxNeg)}

InitTurns ==
    /\ dir = [t \in Entries |-> "dir"]
    /\ workers = 1
    /\ mainpc = "off"
    /\ files = <<>>
    /\ nsub = 0
    /\ futState = [t \in Entries |-> "none"]
    /\ futResult = [t \in Entries |-> NoResult]
    /\ collected = {}
    /\ results = <<>>
    /\ printed = <<>>
    /\ series = [k \in SeriesKeys |-> <<>>]
    /\ pc = [t \in Entries |-> "idle"]
    /\ exc = [t \in Entries |-> "none"]
    /\ local = [t \in Entries |-> NoLocal]
    /\ tmpfs = [n \in TmpNames |-> Absent]
    /\ crashed = {}
    /\ debate \in Debates
    /\ turns = Raise("none")
    /\ bpc = "input"

BuildTurns ==
    /\ bpc = "input"
    /\ turns' = build_turns_from_debate(debate)
    /\ bpc' = "built"
    /\ UNCHANGED <<mainVars, debate>>

NextTurns == BuildTurns

SpecTurns == InitTurns /\ [][NextTurns]_vars

----------------------------------------------------------------------------
\* Notions the properties use.

RegularFiles == {e \in Entries : dir[e] # "dir"}

\* main has left the with block: collection is over
AfterCollection == mainpc \in {"aggregate", "plot", "done", "plot_error"}

\* main has ended after collecting every result
RunOver == mainpc \in {"done", "plot_error"}

\* the state of the task of file t in the life cycle of section 4.1
TaskState(t) ==
    CASE futState[t] = "none"      -> "NotSubmitted"
      [] futState[t] = "pending"   -> "Pending"
      [] futState[t] = "running"   -> "Running"
      [] futState[t] = "exception" -> "Broken"
      [] futState[t] = "finished"  -> IF futResult[t].ok THEN "Succeeded" ELSE "Failed"

\* places of `results` holding the TaskResult of file f
PlacesOf(f) == {i \in 1..Len(results) : results[i].file = f}

\* the exception class a file's content forces, if any
ForcedError(fate) ==
    CASE fate = "badjson"    -> "JSONDecodeError"
      [] fate = "nofield"    -> "KeyError"
      [] fate = "short"      -> "IndexError"
      [] fate = "dialignerr" -> "DialignError"
      [] fate = "nometric"   -> "KeyError"
      [] OTHER               -> "none"

\* what allocating or writing the temp file can raise, before the routine runs
TempFileErrors == {"FileExistsError", "OSError"}

\* task t is between allocating its temp file and leaving the finally block
Holding(t) == pc[t] \in {"to_csv", "dialign", "finally"}

\* a written temp file of file t is still there although t's task is over:
\* its os.remove failed
RemoveFailed(t) ==
    /\ pc[t] = "done"
    /\ \E n \in TmpNames :
          /\ tmpfs[n].exists
          /\ Len(tmpfs[n].content) >= 2
          /\ SourceOf(tmpfs[n].content) = t

----------------------------------------------------------------------------
\* C1: when collection is over, `results` holds exactly one TaskResult per
\* regular file of the directory; a result is a Failure exactly when that
\* file's processing raised, so M failing files give M Failures and N - M
\* Successes; a file whose content cannot be processed is among the
\* Failures.  The order of `results` is the order of completion, any order.
C1_OneResultPerFile ==
    AfterCollection =>
        /\ Len(results) = Cardinality(RegularFiles)
        /\ \A f \in RegularFiles : Cardinality(PlacesOf(f)) = 1
        /\ \A i \in 1..Len(results) :
              /\ results[i].file \in RegularFiles
              /\ results[i].ok <=> exc[results[i].file] = "none"
              /\ ForcedError(dir[results[i].file]) # "none" => ~results[i].ok
        /\ Len(Filter(results, FALSE))
              = Cardinality({f \in RegularFiles : exc[f] # "none"})
        /\ Len(Filter(results, TRUE))
              = Cardinality(RegularFiles) - Cardinality({f \in RegularFiles : exc[f] # "none"})

\* a run that ended with a Success and a Failure, completed in the order
\* opposite to the listing
C1_Witness ==
    /\ mainpc = "done"
    /\ Len(results) = 2
    /\ results[1].file > results[2].file
    /\ results[1].ok
    /\ ~results[2].ok

----------------------------------------------------------------------------
\* C2: an exception raised while a file is processed ends that file's task
\* with a Failure TaskResult naming the file and the exception (the one the
\* file's content forces, when it forces one and no temp-file error came
\* before the routine ran); a finished future's result
\* never changes afterwards, whatever other tasks do; and main is never
\* aborted unless a worker process died.
C2_FailureIsolated ==
    /\ [](\A t \in Entries :
            /\ (pc[t] = "done" /\ exc[t] # "none") =>
                  /\ futState[t] = "finished"
                  /\ ~futResult[t].ok
                  /\ futResult[t].file = t
                  /\ futResult[t].error = <<exc[t], ": ", exc[t]>>
            /\ (pc[t] = "done" /\ ForcedError(dir[t]) # "none") =>
                  exc[t] \in {ForcedError(dir[t])} \cup
                      (IF dir[t] \in {"dialignerr", "nometric"} THEN TempFileErrors ELSE {})
            /\ (mainpc = "aborted" => crashed # {}))
    /\ [][\A t \in Entries :
            futState[t] = "finished" =>
                futState'[t] = "finished" /\ futResult'[t] = futResult[t]]_vars

\* one file failed in the routine, the other succeeded, and the run ended
C2_Witness ==
    /\ mainpc = "done"
    /\ \E t, u \in Entries :
          /\ exc[t] = "DialignError"
          /\ ~futResult[t].ok
          /\ futState[u] = "finished"
          /\ futResult[u].ok

----------------------------------------------------------------------------
\* C3: after the run no temp file exists.
C3_NoTempFileAfterRun ==
    RunOver => \A n \in TmpNames : ~tmpfs[n].exists

----------------------------------------------------------------------------
\* C4: when a worker process died, the batch is not aborted, and once
\* collection is over `results` holds a Failure for the file it was processing.
C4_CrashBecomesFailure ==
    \A t \in crashed :
        /\ mainpc # "aborted"
        /\ AfterCollection => \E i \in PlacesOf(t) : ~results[i].ok

----------------------------------------------------------------------------
\* C5: the temp file a task holds exists, is held by no other task, and from
\* the moment it is written holds that task's own rows: the file the routine
\* reads and os.remove removes is the task's own.
C5_TempFileOwned ==
    \A t \in Entries :
        Holding(t) =>
            /\ local[t].tmp_path \in TmpNames
            /\ tmpfs[local[t].tmp_path].exists
            /\ \A u \in Entries \ {t} : Holding(u) => local[u].tmp_path # local[t].tmp_path
            /\ pc[t] \in {"dialign", "finally"} =>
                  tmpfs[local[t].tmp_path].content = to_csv(local[t].data)
            /\ pc[t] \in {"dialign", "finally"} =>
                  SourceOf(tmpfs[local[t].tmp_path].content) = t

\* two tasks hold temp files at the same time, one of them written
C5_Witness ==
    \E t, u \in Entries :
        /\ t # u
        /\ pc[t] = "dialign"
        /\ pc[u] = "to_csv"

----------------------------------------------------------------------------
\* A debate build_turns_from_debate accepts: it raises nothing.
Built == bpc = "built" /\ turns.err = "none"

NegTurns == debate.players[Neg]

\* C6 as stated: for every record the function accepts, the TurnSequence has
\* length 1 + (len(Negative side) - 2).
C6_LengthAsStated ==
    Built => Len(turns.val) + 2 = 1 + Len(NegTurns)

\* C6, amended: the TurnSequence has length 1 + max(len(Negative side) - 2, 0);
\* row 0 is the seed, spoken by 'Affirmative side' with the text of that
\* side's turn 5; row k >= 1 carries the text of Negative side turn k + 1 and
\* is labelled Negative, Affirmative, Negative, ... in turn.
C6_TurnSequence ==
    Built =>
        /\ Len(turns.val) = 1 + (IF Len(NegTurns) >= 2 THEN Len(NegTurns) - 2 ELSE 0)
        /\ turns.val[1].Speaker = Aff
        /\ turns.val[1].Utterance = debate.players[Aff][6].content
        /\ \A k \in 2..Len(turns.val) :
              /\ turns.val[k].Utterance = NegTurns[k + 1].content
              /\ turns.val[k].Speaker = (IF k % 2 = 0 THEN Neg ELSE Aff)

\* a debate with four Negative side turns gave the seed row and two more
C6_Witness ==
    /\ Built
    /\ Len(NegTurns) = 4
    /\ NegTurns[3] # NegTurns[4]
    /\ Len(turns.val) = 3

----------------------------------------------------------------------------
\* C7: once main has built the series, each of the eight has one element per
\* Success TaskResult, and at every index all eight hold values of one and
\* the same record: the record of the Success at that place among the
\* successes of `results`.
C7_SeriesAligned ==
    mainpc \in {"plot", "done", "plot_error"} =>
        LET ok == Filter(results, TRUE)
        IN  \A k \in SeriesKeys :
               /\ Len(series[k]) = Len(ok)
               /\ Len(series[k]) = Cardinality({t \in Entries : TaskState(t) = "Succeeded"})
               /\ \A i \in 1..Len(ok) :
                     /\ series[k][i][1] = ok[i].file
                     /\ series[k][i][1] = series["comet"][i][1]
                     /\ series[k][i] = ok[i][k]

\* two successes, aggregated in the order opposite to the listing
C7_Witness ==
    /\ mainpc = "done"
    /\ Len(series["comet"]) = 2
    /\ series["comet"][1][1] = 2
    /\ series["er"][2][1] = 1

----------------------------------------------------------------------------
\* the moves of a task's state the life cycle allows
LifeCycleMoves ==
    {<<"NotSubmitted", "Pending">>, <<"Pending", "Running">>,
     <<"Running", "Succeeded">>, <<"Running", "Failed">>}

\* C8: a task's state only moves NotSubmitted -> Pending -> Running ->
\* Succeeded or Failed (so it runs once and the two final states are never
\* left), and every submitted task eventually is Succeeded or Failed.
C8_TaskLifeCycle ==
    /\ [][\A t \in Entries :
            \/ TaskState(t)' = TaskState(t)
            \/ <<TaskState(t), TaskState(t)'>> \in LifeCycleMoves]_vars
    /\ \A t \in Entries :
          (futState[t] = "pending") ~> (TaskState(t) \in {"Succeeded", "Failed"})

\* one task has succeeded, the other has failed
C8_Witness ==
    \E t, u \in Entries : TaskState(t) = "Succeeded" /\ TaskState(u) = "Failed"

----------------------------------------------------------------------------
\* C9: a failed os.remove changes no TaskResult.  When it failed for a file
\* the routine and the rest of the task handle, the result is the Success
\* with that file's metrics; when the routine raised, the Failure names the
\* routine's exception; no TaskResult ever names the removal's exception.
C9_RemoveErrorSwallowed ==
    \A t \in Entries :
        /\ (RemoveFailed(t) /\ dir[t] = "good") =>
              /\ TaskState(t) = "Succeeded"
              /\ futResult[t].er = <<t, "ER">>
              /\ futResult[t].comet = <<t, "comet">>
        /\ (RemoveFailed(t) /\ dir[t] = "dialignerr") =>
              /\ TaskState(t) = "Failed"
              /\ futResult[t].error[1] = "DialignError"
        /\ exc[t] # "PermissionError"

\* the removal failed for a successful file and for one the routine rejected
C9_Witness ==
    \E t, u \in Entries :
        /\ RemoveFailed(t) /\ dir[t] = "good" /\ TaskState(t) = "Succeeded"
        /\ RemoveFailed(u) /\ dir[u] = "dialignerr" /\ TaskState(u) = "Failed"

----------------------------------------------------------------------------
\* C10: whenever main aggregates or plots, no task is pending or running,
\* every regular file's TaskResult is in `results`, and exactly one status
\* line was printed for each file: Processed for a Success, FAILED for a
\* Failure.
C10_FanInBarrier ==
    AfterCollection =>
        /\ \A t \in Entries : TaskState(t) \in {"NotSubmitted", "Succeeded", "Failed"}
        /\ \A t \in RegularFiles :
              /\ TaskState(t) \in {"Succeeded", "Failed"}
              /\ \E i \in 1..Len(results) : results[i] = futResult[t]
              /\ Cardinality({i \in 1..Len(printed) : printed[i][2] = t}) = 1
              /\ \A i \in 1..Len(printed) :
                    printed[i][2] = t =>
                        printed[i][1] = (IF futResult[t].ok THEN "Processed:" ELSE "FAILED:")
        /\ Len(printed) = Cardinality(RegularFiles)

\* main is plotting after one file was processed and one failed
C10_Witness ==
    /\ mainpc = "plot"
    /\ Len(printed) = 2
    /\ printed[1][1] = "FAILED:"
    /\ printed[2][1] = "Processed:"

====
